---- MODULE Spec2Model ----
(***************************************************************************)
(* State-machine model of the services blueprint of the SEO article        *)
(* backend: the settings, generate, articles and publish handlers of       *)
(* backend/app/services/routes.py over the tables of                       *)
(* backend/app/database/models.py, with the two-stage generation client    *)
(* of app/services/article_generator.py.                                   *)
(*                                                                         *)
(* A table is a sequence of rows; a row's primary key (a uuid4 in the      *)
(* code) is its index in the sequence.  Rows are never deleted.            *)
(***************************************************************************)
EXTENDS Integers, Sequences, FiniteSets

\* ---------------------------------------------------------------- bounds
MaxSettings == 2   \* rows of the settings table
MaxArticles == 2   \* rows of the articles table
MaxInflight == 2   \* POST /settings requests between their read and their commit

\* ---------------------------------------------------------------- values
Users == {"u1", "u2"}            \* rows of the users table (JWT identities)
NULL == "NULL"                   \* Python None / SQL NULL
FieldValues == {"a", "b"}        \* free-form text of a settings column
Keywords == {"k1", "k2"}         \* truthy keyword strings
ArticleText == "t1"              \* text of the completion's first content block
ResearchText == "r1"             \* text of the research call's first message
NoCall == "none"                 \* an external API that was not called

\* Settings columns a JSON payload can address.  shopify_url, business_type
\* and brand_guidelines are nullable text columns handled exactly like
\* brand_name and content_type, so two of the five stand for all.
ConfigColumns == {"brand_name", "content_type"}
Columns == ConfigColumns \cup {"user_id"}
PayloadKeys == Columns \cup {"bogus"}

KeyValues(k) ==
    IF k = "user_id" THEN Users
    ELSE IF k = "brand_name" THEN FieldValues
    ELSE {"a"}

\* JSON objects of a POST /settings body: any subset of the keys.
Payloads ==
    UNION {{d \in [K -> FieldValues \cup Users] : \A k \in K : d[k] \in KeyValues(k)}
           : K \in SUBSET PayloadKeys}

SettingsBodies ==
    {[kind |-> "object", data |-> d] : d \in Payloads}
        \cup {[kind |-> "nonobject", data |-> <<>>]}

\* The bodies that decide whether a user has a settings row and who owns it:
\* the article handlers read nothing else of the settings table.
OwnershipBodies ==
    {b \in SettingsBodies : DOMAIN b.data \subseteq {"user_id"}}

\* Bodies for interleaved requests: at most one of the owner and one
\* configuration column.
RaceBodies ==
    {b \in SettingsBodies :
        DOMAIN b.data \subseteq {"user_id", "brand_name"} /\ Cardinality(DOMAIN b.data) <= 1}

\* Bodies of POST /generate: no JSON body, a JSON value that is not an
\* object, or an object with or without the key "keyword".
GenerateBodies ==
    {[kind |-> "absent", data |-> <<>>], [kind |-> "nonobject", data |-> <<>>],
     [kind |-> "object", data |-> <<>>]}
        \cup {[kind |-> "object", data |-> [k \in {"keyword"} |-> v]]
              : v \in {NULL, ""} \cup Keywords}

VARIABLES
    settings,   \* the settings table
    articles,   \* the articles table
    inflight,   \* sessions of POST /settings requests that have not committed
    resp        \* the request served by the last step and its response

vars == <<settings, articles, inflight, resp>>

\* ------------------------------------------------------------ models.py
\* Settings(id=..., user_id=u, **data): unsupplied columns are NULL.
NewSettings(u, data) ==
    [c \in Columns |->
        IF c = "user_id" THEN u
        ELSE IF c \in DOMAIN data THEN data[c] ELSE NULL]

\* Article(...): published takes its column default, publish_url is NULL.
NewArticleBug(u, keyword, result) ==
    [user_id |-> u, keyword |-> keyword, content |-> result.content,
     html_content |-> result.html_content, published |-> TRUE,
     publish_url |-> NULL]

NewArticle(u, keyword, result) ==
    [user_id |-> u, keyword |-> keyword, content |-> result.content,
     html_content |-> result.html_content, published |-> FALSE,
     publish_url |-> NULL]

\* Article.to_dict: the owner is not serialised.
to_dict(id) ==
    [id |-> id, keyword |-> articles[id].keyword, content |-> articles[id].content,
     html_content |-> articles[id].html_content,
     published |-> articles[id].published, publish_url |-> articles[id].publish_url]

\* user.settings (uselist=False): the rows the relationship can load.
SettingsRows(u) == {s \in DOMAIN settings : settings[s].user_id = u}

\* ------------------------------------------------------------- responses
\* The request a step served (op, user, arg) and what came of it: the HTTP
\* status and body (result), the row it touched (sid), the calls made to
\* the research and the completion API, and the research text handed to
\* the completion (info).  before holds, as a one-element sequence, the row
\* as it was when an update or a publish loaded it.
Response(op, u, status, arg, sid, research, completion, info, result) ==
    [op |-> op, user |-> u, status |-> status, arg |-> arg, sid |-> sid,
     research |-> research, completion |-> completion, info |-> info,
     result |-> result, before |-> <<>>]

Init ==
    /\ settings = <<>>
    /\ articles = <<>>
    /\ inflight = <<>>
    /\ resp = Response("start", "u1", 0, 0, 0, NoCall, NoCall, "", <<>>)

\* ------------------------------------------- routes.py: manage_settings
\* GET: 404 without settings, else the configuration fields of the row.
ManageSettingsGet(u) ==
    /\ \/ /\ SettingsRows(u) = {}
          /\ resp' = Response("settings_get", u, 404, 0, 0, NoCall, NoCall, "", <<>>)
       \/ \E s \in SettingsRows(u) :
            resp' = Response("settings_get", u, 200, 0, s, NoCall, NoCall, "",
                             [c \in ConfigColumns |-> settings[s][c]])
    /\ UNCHANGED <<settings, articles, inflight>>

\* Settings(id=.., user_id=.., **data) raises TypeError when data repeats the
\* keyword user_id or names an attribute the mapped class does not have.
ConstructorRaises(data) ==
    \/ "user_id" \in DOMAIN data
    \/ DOMAIN data \ Columns # {}

\* for key, value in data.items(): setattr(user.settings, key, value).
\* A key that is no column becomes a plain attribute of the Python object.
SetAttrsBug(row, data) ==
    [c \in Columns |-> IF c \in DOMAIN data THEN data[c]
                       ELSE IF c = "user_id" THEN row[c] ELSE NULL]

SetAttrs(row, data) ==
    [c \in Columns |-> IF c \in DOMAIN data THEN data[c] ELSE row[c]]

\* db.session.commit() of a loaded row: the UPDATE carries the columns whose
\* value differs from the value loaded (snap); the others keep the value the
\* table holds.
Flush(dbrow, snap, obj) ==
    [c \in Columns |-> IF obj[c] # snap[c] THEN obj[c] ELSE dbrow[c]]

\* POST, served without another request in between.
ManageSettingsPost(u, body) ==
    /\ \/ /\ body.kind # "object"
          /\ UNCHANGED settings
          /\ resp' = Response("settings_post", u, 500, body, 0, NoCall, NoCall, "", <<>>)
       \/ /\ body.kind = "object"
          /\ SettingsRows(u) = {}
          /\ ConstructorRaises(body.data)
          /\ UNCHANGED settings
          /\ resp' = Response("settings_post", u, 500, body, 0, NoCall, NoCall, "", <<>>)
       \/ /\ body.kind = "object"
          /\ SettingsRows(u) = {}
          /\ ~ConstructorRaises(body.data)
          /\ Len(settings) < MaxSettings
          /\ settings' = Append(settings, NewSettings(u, body.data))
          /\ resp' = Response("settings_post", u, 200, body, Len(settings) + 1,
                              NoCall, NoCall, "", <<>>)
       \/ /\ body.kind = "object"
          /\ \E s \in SettingsRows(u) :
                /\ settings' = [settings EXCEPT ![s] =
                       Flush(settings[s], settings[s], SetAttrs(settings[s], body.data))]
                /\ resp' = [Response("settings_post", u, 200, body, s,
                                     NoCall, NoCall, "", <<>>)
                               EXCEPT !.before = <<settings[s]>>]
    /\ UNCHANGED <<articles, inflight>>

\* ------------------------------------- article_generator.py: the client
\* The research stage as one request sees it: "off" when USE_PERPLEXITY is
\* not 'true' (read from the environment at each construction), else what
\* requests.post does: a 200 answer, another status, or an exception.
ResearchModes == {"off", "ok", "status_fail", "raise"}
CompletionModes == {"ok", "fail"}

\* get_perplexity_info: requests.post is not guarded, so its exception
\* leaves the method.
ResearchRaises(mode) == mode = "raise"

\* get_perplexity_info: the text of the first message on status 200, else "".
get_perplexity_info(mode) == IF mode = "ok" THEN ResearchText ELSE ""

\* What the research API saw of the request.
ResearchCall(mode) == IF mode = "off" THEN NoCall ELSE mode

\* generate_article: client.messages.create raised, re-raised as
\* Exception("Error generating article: ...").
CompletionRaisesBug(mode) == FALSE

CompletionRaises(mode) == mode = "fail"

\* generate_article: the record returned; content and html_content are the
\* same text.  A failed call has no content block.
GeneratorResult(mode, info) ==
    [content |-> IF mode = "ok" THEN ArticleText ELSE "",
     html_content |-> IF mode = "ok" THEN ArticleText ELSE "",
     perplexity_info |-> info]

\* ------------------------------------------ routes.py: generate_article
\* `not user.settings`
NoSettingsBug(u) == FALSE

NoSettings(u) == SettingsRows(u) = {}

\* data.get('keyword')
KeywordOf(data) == IF "keyword" \in DOMAIN data THEN data["keyword"] ELSE NULL

\* `not keyword` for None and for the empty string
Falsy(v) == v \in {NULL, ""}

\* request.get_json() without a JSON body: None (and then data.get raises
\* AttributeError, an unhandled 500) or an HTTP error raised by the
\* framework, depending on the installed Flask.
AbsentBodyStatus == {400, 415, 500}

GenerateArticle(u, body) ==
    /\ \/ /\ NoSettings(u)
          /\ UNCHANGED articles
          /\ resp' = Response("generate", u, 400, body, 0, NoCall, NoCall, "",
                              [error |-> "Please configure your settings first"])
       \/ /\ ~NoSettings(u)
          /\ body.kind = "absent"
          /\ UNCHANGED articles
          /\ \E st \in AbsentBodyStatus :
                resp' = Response("generate", u, st, body, 0, NoCall, NoCall, "",
                                 [error |-> "no JSON body"])
       \/ /\ ~NoSettings(u)
          /\ body.kind = "nonobject"
          /\ UNCHANGED articles
          /\ resp' = Response("generate", u, 500, body, 0, NoCall, NoCall, "",
                              [error |-> "AttributeError"])
       \/ /\ ~NoSettings(u)
          /\ body.kind = "object"
          /\ Falsy(KeywordOf(body.data))
          /\ UNCHANGED articles
          /\ resp' = Response("generate", u, 400, body, 0, NoCall, NoCall, "",
                              [error |-> "Keyword is required"])
       \/ /\ ~NoSettings(u)
          /\ body.kind = "object"
          /\ ~Falsy(KeywordOf(body.data))
          /\ \E research \in ResearchModes :
                /\ ResearchRaises(research)
                /\ UNCHANGED articles
                /\ resp' = Response("generate", u, 500, body, 0, ResearchCall(research),
                                    NoCall, "", [error |-> "research call raised"])
       \/ /\ ~NoSettings(u)
          /\ body.kind = "object"
          /\ ~Falsy(KeywordOf(body.data))
          /\ \E research \in ResearchModes, completion \in CompletionModes :
                /\ ~ResearchRaises(research)
                /\ CompletionRaises(completion)
                /\ UNCHANGED articles
                /\ resp' = Response("generate", u, 500, body, 0, ResearchCall(research),
                                    completion, get_perplexity_info(research),
                                    [error |-> "Error generating article"])
       \/ /\ ~NoSettings(u)
          /\ body.kind = "object"
          /\ ~Falsy(KeywordOf(body.data))
          /\ Len(articles) < MaxArticles
          /\ \E research \in ResearchModes, completion \in CompletionModes :
                /\ ~ResearchRaises(research)
                /\ ~CompletionRaises(completion)
                /\ articles' = Append(articles,
                      NewArticle(u, KeywordOf(body.data),
                          GeneratorResult(completion, get_perplexity_info(research))))
                /\ resp' = Response("generate", u, 201, body, Len(articles) + 1,
                                    ResearchCall(research), completion,
                                    get_perplexity_info(research),
                                    [message |-> "Article generated successfully"])
    /\ UNCHANGED <<settings, inflight>>

\* ------------------------------- routes.py: get_articles / get_article
\* Ids a client can send: those of the table and one that matches no row.
ArticleIds == 1..(MaxArticles + 1)

\* Article.query.filter_by(user_id=u).order_by(created_at.desc()).all():
\* the ids of the first n rows that u owns, newest first.
RECURSIVE OwnedDesc(_, _)
OwnedDesc(u, n) ==
    IF n = 0 THEN <<>>
    ELSE IF articles[n].user_id = u THEN <<n>> \o OwnedDesc(u, n - 1)
    ELSE OwnedDesc(u, n - 1)

GetArticles(u) ==
    /\ resp' = Response("list", u, 200, 0, 0, NoCall, NoCall, "",
                        [i \in DOMAIN OwnedDesc(u, Len(articles)) |->
                            to_dict(OwnedDesc(u, Len(articles))[i])])
    /\ UNCHANGED <<settings, articles, inflight>>

\* Article.query.filter_by(id=article_id, user_id=u).first(); 0 for None.
FindArticleBug(article_id, u) ==
    IF article_id \in DOMAIN articles THEN article_id ELSE 0

FindArticle(article_id, u) ==
    IF article_id \in DOMAIN articles /\ articles[article_id].user_id = u
    THEN article_id ELSE 0

GetArticle(u, article_id) ==
    /\ \/ /\ FindArticle(article_id, u) = 0
          /\ resp' = Response("get", u, 404, article_id, 0, NoCall, NoCall, "",
                              [error |-> "Article not found"])
       \/ /\ FindArticle(article_id, u) # 0
          /\ resp' = Response("get", u, 200, article_id, article_id, NoCall, NoCall,
                              "", to_dict(article_id))
    /\ UNCHANGED <<settings, articles, inflight>>

\* ------------------------------------------ routes.py: publish_article
PUBLISH_URL == "https://your-shop.myshopify.com/blogs/news/article-url"

\* article.published = True; article.publish_url = <the placeholder>
PublishedBug(row) ==
    [row EXCEPT !.published = ~row.published,
                !.publish_url = IF row.published THEN NULL ELSE PUBLISH_URL]

Published(row) == [row EXCEPT !.published = TRUE, !.publish_url = PUBLISH_URL]

PublishArticle(u, article_id) ==
    /\ \/ /\ FindArticle(article_id, u) = 0
          /\ UNCHANGED articles
          /\ resp' = Response("publish", u, 404, article_id, 0, NoCall, NoCall, "",
                              [error |-> "Article not found"])
       \/ /\ FindArticle(article_id, u) # 0
          /\ articles' = [articles EXCEPT ![article_id] = Published(articles[article_id])]
          /\ resp' = [Response("publish", u, 200, article_id, article_id, NoCall,
                               NoCall, "", to_dict(article_id)')
                         EXCEPT !.before = <<articles[article_id]>>]
    /\ UNCHANGED <<settings, inflight>>

\* --------------------- manage_settings POST, interleaved with others
\* A session between `if not user.settings` (the read) and
\* db.session.commit(): the row it loaded (seen, 0 for none), the values
\* loaded (snap) and the object it will flush (obj).
ManageSettingsBegin(u, body) ==
    /\ \/ /\ body.kind # "object"
          /\ UNCHANGED inflight
          /\ resp' = Response("settings_post", u, 500, body, 0, NoCall, NoCall, "", <<>>)
       \/ /\ body.kind = "object"
          /\ SettingsRows(u) = {}
          /\ ConstructorRaises(body.data)
          /\ UNCHANGED inflight
          /\ resp' = Response("settings_post", u, 500, body, 0, NoCall, NoCall, "", <<>>)
       \/ /\ body.kind = "object"
          /\ SettingsRows(u) = {}
          /\ ~ConstructorRaises(body.data)
          /\ Len(inflight) < MaxInflight
          /\ inflight' = Append(inflight,
                [user |-> u, body |-> body, seen |-> 0,
                 snap |-> NewSettings(u, body.data), obj |-> NewSettings(u, body.data)])
          /\ resp' = Response("settings_read", u, 0, body, 0, NoCall, NoCall, "", <<>>)
       \/ /\ body.kind = "object"
          /\ Len(inflight) < MaxInflight
          /\ \E s \in SettingsRows(u) :
                /\ inflight' = Append(inflight,
                      [user |-> u, body |-> body, seen |-> s, snap |-> settings[s],
                       obj |-> SetAttrs(settings[s], body.data)])
                /\ resp' = Response("settings_read", u, 0, body, s, NoCall, NoCall, "", <<>>)
    /\ UNCHANGED <<settings, articles>>

Without(seq, i) == [j \in 1..(Len(seq) - 1) |-> IF j < i THEN seq[j] ELSE seq[j + 1]]

\* db.session.commit(): INSERT of the new row, or UPDATE of the loaded one.
ManageSettingsCommit(i) ==
    /\ i \in DOMAIN inflight
    /\ \/ /\ inflight[i].seen = 0
          /\ Len(settings) < MaxSettings
          /\ settings' = Append(settings, inflight[i].obj)
          /\ resp' = Response("settings_post", inflight[i].user, 200, inflight[i].body,
                              Len(settings) + 1, NoCall, NoCall, "", <<>>)
       \/ /\ inflight[i].seen # 0
          /\ settings' = [settings EXCEPT ![inflight[i].seen] =
                Flush(settings[inflight[i].seen], inflight[i].snap, inflight[i].obj)]
          /\ resp' = [Response("settings_post", inflight[i].user, 200,
                               inflight[i].body, inflight[i].seen, NoCall, NoCall, "", <<>>)
                         EXCEPT !.before = <<settings[inflight[i].seen]>>]
    /\ inflight' = Without(inflight, i)
    /\ UNCHANGED articles

\* ------------------------------------------------------- specifications
\* Every handler, each request served whole.  POST /settings bodies are
\* those that create a row or move it to another user.
Next ==
    \/ \E u \in Users : ManageSettingsGet(u)
    \/ \E u \in Users, body \in OwnershipBodies : ManageSettingsPost(u, body)
    \/ \E u \in Users, body \in GenerateBodies : GenerateArticle(u, body)
    \/ \E u \in Users : GetArticles(u)
    \/ \E u \in Users, article_id \in ArticleIds : GetArticle(u, article_id)
    \/ \E u \in Users, article_id \in ArticleIds : PublishArticle(u, article_id)

Spec == Init /\ [][Next]_vars

\* The settings endpoint alone, with every body, each request served whole.
NextSettings ==
    \/ \E u \in Users : ManageSettingsGet(u)
    \/ \E u \in Users, body \in SettingsBodies : ManageSettingsPost(u, body)

SpecSettings == Init /\ [][NextSettings]_vars

\* The settings endpoint with POST requests interleaved between their read
\* and their commit (a threaded server; no lock, no unique constraint).
NextConc ==
    \/ \E u \in Users : ManageSettingsGet(u)
    \/ \E u \in Users, body \in RaceBodies : ManageSettingsBegin(u, body)
    \/ \E i \in 1..MaxInflight : ManageSettingsCommit(i)

SpecConc == Init /\ [][NextConc]_vars

\* ================================================================ claims
\* Rows of the settings table that u owns, by ownership column alone.
RowsOwned(tbl, u) == {s \in DOMAIN tbl : tbl[s].user_id = u}

\* ---------------------------------------------------------------- C1
\* C1: a request authenticated as A reads and changes only A's articles:
\* the list holds only A's articles, get and publish with the id of
\* another user's article answer 404, and every article a step creates or
\* changes is owned, before and after, by the user who made the request.
C1_Step ==
    /\ resp'.op = "list" =>
          \A i \in DOMAIN resp'.result :
             /\ resp'.result[i].id \in DOMAIN articles
             /\ articles[resp'.result[i].id].user_id = resp'.user
    /\ (/\ resp'.op \in {"get", "publish"}
        /\ resp'.arg \in DOMAIN articles
        /\ articles[resp'.arg].user_id # resp'.user) =>
          /\ resp'.status = 404
          /\ "error" \in DOMAIN resp'.result
          /\ articles' = articles
    /\ \A i \in DOMAIN articles' :
          (i \notin DOMAIN articles \/ articles'[i] # articles[i]) =>
             /\ articles'[i].user_id = resp'.user
             /\ i \in DOMAIN articles => articles[i].user_id = resp'.user
    /\ \A i \in DOMAIN articles : i \in DOMAIN articles'

C1_Isolation == [][C1_Step]_vars

\* B's article exists and A's publish of it was answered 404.
C1_Witness ==
    /\ resp.op = "publish"
    /\ resp.status = 404
    /\ resp.arg \in DOMAIN articles
    /\ articles[resp.arg].user_id # resp.user
    /\ \E i \in DOMAIN articles : articles[i].user_id = resp.user

\* ---------------------------------------------------------------- C2
\* C2: a POST /settings by A leaves every row of the settings table owned
\* by its owner, and leaves the rows of every other user B (and so what
\* GET /settings returns for B) as they were.
C2_Step ==
    resp'.op = "settings_post" =>
       /\ \A s \in DOMAIN settings :
             s \in DOMAIN settings' /\ settings'[s].user_id = settings[s].user_id
       /\ \A B \in Users \ {resp'.user} :
             /\ RowsOwned(settings', B) = RowsOwned(settings, B)
             /\ \A s \in RowsOwned(settings, B) : settings'[s] = settings[s]

C2_Original == [][C2_Step]_vars

\* ---------------------------------------------------------------- C3
\* C3: a generate request of a user without a settings row is answered
\* 400, calls neither external API and leaves the articles table unchanged.
C3_Step ==
    (resp'.op = "generate" /\ RowsOwned(settings, resp'.user) = {}) =>
       /\ resp'.status = 400
       /\ resp'.research = NoCall
       /\ resp'.completion = NoCall
       /\ articles' = articles

C3_NoSettings == [][C3_Step]_vars

\* A well-formed generate request (an object with a keyword) of a user
\* without settings was answered 400.
C3_Witness ==
    /\ resp.op = "generate"
    /\ resp.status = 400
    /\ RowsOwned(settings, resp.user) = {}
    /\ resp.arg.kind = "object"
    /\ "keyword" \in DOMAIN resp.arg.data
    /\ resp.arg.data["keyword"] \in Keywords
    /\ \E u \in Users : RowsOwned(settings, u) # {}

\* ---------------------------------------------------------------- C4
\* C4: the articles table grows only by one row, in a generate request
\* whose completion call succeeded and with the text it returned; a
\* generate request whose completion call failed is answered 500 with an
\* error body and leaves the table unchanged.
C4_Step ==
    /\ Len(articles') # Len(articles) =>
          /\ Len(articles') = Len(articles) + 1
          /\ resp'.op = "generate"
          /\ resp'.status = 201
          /\ resp'.completion = "ok"
          /\ articles'[Len(articles')].content = ArticleText
          /\ articles'[Len(articles')].html_content = ArticleText
          /\ articles'[Len(articles')].user_id = resp'.user
    /\ (resp'.op = "generate" /\ resp'.completion = "fail") =>
          /\ resp'.status = 500
          /\ "error" \in DOMAIN resp'.result
          /\ articles' = articles

C4_WriteAfterCompletion == [][C4_Step]_vars

\* A completion call failed while an article was already stored.
C4_Witness ==
    /\ resp.op = "generate"
    /\ resp.completion = "fail"
    /\ resp.status = 500
    /\ Len(articles) > 0

\* ---------------------------------------------------------------- C5
\* C5: a generate request of a user with settings whose body is absent,
\* is not a JSON object or carries no keyword (missing, null, empty) is
\* answered 400 before any external call and creates no article.
C5_Malformed(body) ==
    \/ body.kind \in {"absent", "nonobject"}
    \/ "keyword" \notin DOMAIN body.data
    \/ body.data["keyword"] \in {NULL, ""}

C5_Step ==
    (/\ resp'.op = "generate"
     /\ RowsOwned(settings, resp'.user) # {}
     /\ C5_Malformed(resp'.arg)) =>
       /\ resp'.status = 400
       /\ resp'.research = NoCall
       /\ resp'.completion = NoCall
       /\ articles' = articles

C5_Original == [][C5_Step]_vars

\* ---------------------------------------------------------------- C6
\* C6: a publish request by the owner of an article that is already
\* published is answered 200 and leaves the article, and the whole
\* articles table, as it was: published true, publish_url unchanged.
C6_Step ==
    (/\ resp'.op = "publish"
     /\ resp'.arg \in DOMAIN articles
     /\ articles[resp'.arg].user_id = resp'.user
     /\ articles[resp'.arg].published) =>
       /\ resp'.status = 200
       /\ articles'[resp'.arg].published
       /\ articles'[resp'.arg].publish_url = articles[resp'.arg].publish_url
       /\ articles' = articles

C6_PublishIdempotent == [][C6_Step]_vars

\* The last request published an article that was already published.
C6_Witness ==
    /\ resp.op = "publish"
    /\ resp.status = 200
    /\ Len(resp.before) = 1
    /\ resp.before[1].published
    /\ resp.before[1].publish_url = PUBLISH_URL

\* ---------------------------------------------------------------- C7
\* C7: a POST /settings of a JSON object by a user who has a settings row
\* is answered 200 and sets, in the row it loaded, every supplied column to
\* the supplied value and leaves every other column, and every other row,
\* unchanged; when the row already holds the supplied values the table is
\* left unchanged.
C7_Step ==
    (/\ resp'.op = "settings_post"
     /\ resp'.arg.kind = "object"
     /\ RowsOwned(settings, resp'.user) # {}) =>
       /\ resp'.status = 200
       /\ resp'.sid \in RowsOwned(settings, resp'.user)
       /\ DOMAIN settings' = DOMAIN settings
       /\ \A c \in Columns :
             settings'[resp'.sid][c] =
                IF c \in DOMAIN resp'.arg.data THEN resp'.arg.data[c]
                ELSE settings[resp'.sid][c]
       /\ \A s \in DOMAIN settings \ {resp'.sid} : settings'[s] = settings[s]
       /\ (\A c \in Columns \cap DOMAIN resp'.arg.data :
              settings[resp'.sid][c] = resp'.arg.data[c]) => settings' = settings

C7_UpsertFrame == [][C7_Step]_vars

\* A partial update overwrote brand_name and kept a content_type that the
\* payload did not supply.
C7_Witness ==
    /\ resp.op = "settings_post"
    /\ resp.status = 200
    /\ Len(resp.before) = 1
    /\ DOMAIN resp.arg.data = {"brand_name"}
    /\ resp.before[1].brand_name = "a"
    /\ settings[resp.sid].brand_name = "b"
    /\ settings[resp.sid].content_type = "a"

\* ---------------------------------------------------------------- C8
\* C8: an article is created unpublished; no step takes published from
\* true to false or changes keyword, content, html_content or owner of a
\* stored article; no row is removed; a stored article changes only in a
\* publish request.
C8_Step ==
    /\ \A i \in DOMAIN articles :
          /\ i \in DOMAIN articles'
          /\ articles[i].published => articles'[i].published
          /\ articles'[i].keyword = articles[i].keyword
          /\ articles'[i].content = articles[i].content
          /\ articles'[i].html_content = articles[i].html_content
          /\ articles'[i].user_id = articles[i].user_id
          /\ articles'[i] # articles[i] => resp'.op = "publish"
    /\ \A i \in DOMAIN articles' \ DOMAIN articles :
          /\ ~articles'[i].published
          /\ articles'[i].publish_url = NULL

C8_Lifecycle == [][C8_Step]_vars

\* An article was created after another one had been published.
C8_Witness ==
    /\ resp.op = "generate"
    /\ resp.status = 201
    /\ \E i \in DOMAIN articles : articles[i].published
    /\ ~articles[resp.sid].published

\* ---------------------------------------------------------------- C9
\* C9: when the research call of a generate request fails (a non-200
\* status or an exception), the completion is still called, with the empty
\* research text, and the request fails only if the completion fails.
C9_Step ==
    (resp'.op = "generate" /\ resp'.research \in {"status_fail", "raise"}) =>
       /\ resp'.completion # NoCall
       /\ resp'.info = ""
       /\ resp'.status = 500 => resp'.completion = "fail"

C9_Original == [][C9_Step]_vars

\* ---------------------------------------------------------------- C10
\* C10: every user owns at most one row of the settings table.
C10_Original == \A u \in Users : Cardinality(RowsOwned(settings, u)) <= 1
====
